---- MODULE Spec2Model ----
(***************************************************************************)
(* DiscordVim: keyboard navigation overlay for a chat web client.          *)
(*                                                                         *)
(* Two scripts are modelled side by side, selected by the variable         *)
(* `script`:                                                               *)
(*   "userscript"  src/DiscordVim.uc.js   (version 2.5)                    *)
(*   "plugin"      src/unnamed/part_000   (version 3.0, class DiscordVim)  *)
(*                                                                         *)
(* The host page's DOM is the environment.  What a callback finds when it  *)
(* queries the DOM is an input of the action that runs the callback; the   *)
(* chat container and its message list persist between callbacks because  *)
(* the two mutation observers are attached to them.                        *)
(***************************************************************************)
EXTENDS Integers, Sequences, FiniteSets, TLC

\* ------------------------------------------------------------- bounds
\* pending timers kept at once
MaxTimers == 1
\* chat message items in the list
MaxMsgs == 2
\* links / images / videos inside the selected message
MaxElems == 2
\* nested synchronous dispatchEvent calls before the engine's stack overflows
MaxNest == 3

\* ---------------------------------------------------- program constants
focusDelay == 25
keyDispatch == 5
animationBuffer == 1000

VARIABLES
    script,     \* which of the two scripts is installed
    chat,       \* a chat container (div[class*="chat"]) is in the document
    listLi,     \* '[data-list-id="chat-messages"] li' matches something
    startObs,   \* channelSwitchStart: "off" | "on" | "stale" (observing a removed container)
    endObs,     \* channelSwitchEnd:   "off" | "on" | "stale"
    timers,     \* pending setTimeout callbacks, in the order they were set
    sw,         \* progress of the channel switch after Alt+j/k: "none" | "pressed" |
                \* "removed" (channelSwitchStart saw the old list items go) |
                \* "inserted" (new list items came) | "tabbed" (focus and Tab done)
    last,       \* the callback that ran last and the inputs it saw ("none": event loop idle)
    fx          \* what that callback did, in order

vars == <<script, chat, listLi, startObs, endObs, timers, sw, last, fx>>

\* ------------------------------------------------------------ JS values
\* querySelector's "no match" and Array.prototype.pop's "empty array"
Null == 0
Undefined == 0 - 1

\* a == b on an element reference, null or undefined
LooseEq(a, b) == a = b \/ (a \in {Null, Undefined} /\ b \in {Null, Undefined})
\* a === b
StrictEq(a, b) == a = b

\* String.prototype.toLowerCase on the key names that occur
ToLower(k) ==
    CASE k = "J" -> "j" [] k = "K" -> "k" [] k = "O" -> "o" [] k = "P" -> "p"
      [] k = "I" -> "i" [] k = "H" -> "h" [] k = "L" -> "l" [] k = "X" -> "x"
      [] k = "Escape" -> "escape" [] k = "Tab" -> "tab"
      [] k = "ArrowUp" -> "arrowup" [] k = "ArrowDown" -> "arrowdown"
      [] OTHER -> k

\* ------------------------------------------------------------- effects
Eff(op, el, key) ==
    [op |-> op, el |-> el, key |-> key, i |-> 0,
     alt |-> FALSE, ctrl |-> FALSE, shift |-> FALSE]

Add(s, f) == [s EXCEPT !.fx = Append(@, f)]

\* an uncaught exception ends the listener; the browser reports it
Throw(s, el) == Add(s, Eff("throw", el, "TypeError"))

SetTimeout(s, kind, arg) ==
    [Add(s, Eff("setTimeout", kind, arg)) EXCEPT
        !.timers = Append(@, [kind |-> kind, arg |-> arg])]

\* element.focus(): the element becomes document.activeElement
Focus(s, el) ==
    [Add(s, Eff("focus", el, "")) EXCEPT
        !.active = IF el \in {"editor", "textbox"} THEN "editable" ELSE "DIV"]

\* new KeyboardEvent('keydown', {key, shiftKey, ctrlKey, altKey, bubbles: true})
KeyboardEvent(key, alt, ctrl, shift) ==
    [key |-> key, alt |-> alt, ctrl |-> ctrl, shift |-> shift]

\* elements that lie inside #app-mount (the app root itself included)
InAppMount(target) == target \in {"appMount", "selectedMsg", "editor", "backdrop", "inside"}

\* document.activeElement is a typing target
TypingTarget(active) ==
    active = "editable" \/ active = "INPUT" \/ active = "TEXTAREA"

\* [...document.querySelectorAll('[data-list-item-id^="chat-messages"]')].pop()
LastChatMessage(d) == IF d.nMsgs = 0 THEN Undefined ELSE d.nMsgs

\* selected.querySelector(sel): index of the first element of that kind, or Null
RECURSIVE FirstFrom(_, _, _)
FirstFrom(content, kind, i) ==
    IF i > Len(content) THEN Null
    ELSE IF content[i].kind = kind THEN i
    ELSE FirstFrom(content, kind, i + 1)

QueryIn(d, kind) == IF d.sel = Null THEN Null ELSE FirstFrom(d.content, kind, 1)

Click(s, el, i) == Add(s, [Eff("click", el, "") EXCEPT !.i = i])

Observe(s, which) ==
    IF which = "start"
    THEN [Add(s, Eff("observe", "start", "")) EXCEPT !.startObs = "on"]
    ELSE [Add(s, Eff("observe", "end", "")) EXCEPT !.endObs = "on"]

Disconnect(s, which) ==
    IF which = "start"
    THEN [Add(s, Eff("disconnect", "start", "")) EXCEPT !.startObs = "off"]
    ELSE [Add(s, Eff("disconnect", "end", "")) EXCEPT !.endObs = "off"]

StopImmediatePropagation(s) ==
    [Add(s, Eff("stopImmediatePropagation", "event", "")) EXCEPT !.stop = TRUE]

PreventDefault(s) == Add(s, Eff("preventDefault", "event", ""))

ScrollIntoView(s, el) == Add(s, Eff("scrollIntoView", el, ""))

\* ----------------------------------------------------------------------
\* Synchronous event dispatch.  target.dispatchEvent(evt) runs the keydown
\* listeners on the path from the target up to the document before it
\* returns: the #app-mount listener when the target lies inside the app
\* root, then the document listener unless propagation was stopped.  n is
\* the number of dispatchEvent calls already on the stack.
\* ----------------------------------------------------------------------
RECURSIVE DispatchEvent(_, _, _, _, _)
RECURSIVE Propagate(_, _, _, _, _)
RECURSIVE US_AppMountKeydown(_, _, _, _)
RECURSIVE US_DocumentKeydown(_, _, _, _)
RECURSIVE PL_dispatchNavKey(_, _, _, _, _)
RECURSIVE PL_focusLastMessage(_, _, _)
RECURSIVE PL_navigateMessage(_, _, _, _)
RECURSIVE PL_handleAppKeydown(_, _, _, _)
RECURSIVE PL_handleDocKeydown(_, _, _, _)

\* ======================= userscript: src/DiscordVim.uc.js ==============

\* document.querySelector('#app-mount').addEventListener('keydown', ...)
US_AppMountKeydown(s, e, d, n) ==
    LET key == ToLower(e.key)
        s1 == IF ~e.alt /\ (key = "j" \/ key = "k" \/ key = "o" \/ key = "p")
              THEN StopImmediatePropagation(s) ELSE s
    IN
    IF e.ctrl /\ key = "k" THEN s
    ELSE IF TypingTarget(s1.active) THEN s1
    ELSE IF key = "j" \/ key = "k" THEN
        LET selectedMsg == d.sel IN
        IF key = "j" /\ LooseEq(selectedMsg, LastChatMessage(d)) THEN s1
        ELSE DispatchEvent(s1,
                 IF selectedMsg # Null THEN "selectedMsg" ELSE "appMount",
                 KeyboardEvent(IF key = "j" THEN "ArrowDown" ELSE "ArrowUp",
                               FALSE, FALSE, FALSE), d, n)
    ELSE IF key = "o" THEN
        LET link == QueryIn(d, "link") IN
        IF link # Null /\ ~d.content[link].inReply THEN Click(s1, "link", link)
        ELSE LET img == QueryIn(d, "img") IN
             IF img # Null THEN Click(s1, "img", img) ELSE s1
    ELSE IF key = "p" THEN
        IF d.hasReply THEN
            LET s2 == PreventDefault(s1) IN
            IF ~d.replyBtn THEN Throw(s2, "replyPreview")
            ELSE IF ~d.replyChild THEN Throw(s2, "replyChild")
            ELSE LET s3 == Click(s2, "replyPreview", 0) IN
                 IF ~d.parent THEN Throw(s3, "parent")
                 ELSE DispatchEvent(Focus(s3, "parent"), "appMount",
                          KeyboardEvent("ArrowUp", FALSE, FALSE, FALSE), d, n)
        ELSE s1
    ELSE s1

\* document.addEventListener('keydown', ...)
US_DocumentKeydown(s, e, d, n) ==
    LET key == ToLower(e.key) IN
    IF e.alt THEN
        IF key = "h" THEN Add(s, Eff("history", "back", ""))
        ELSE IF key = "l" THEN Add(s, Eff("history", "forward", ""))
        ELSE IF key = "j" \/ key = "k" THEN
            LET s1 == DispatchEvent(s, "document",
                          KeyboardEvent(IF key = "j" THEN "ArrowDown" ELSE "ArrowUp",
                                        e.alt, e.ctrl, e.shift), d, n)
            IN IF d.chat THEN Observe(s1, "start") ELSE s1
        ELSE s
    ELSE IF key = "i" /\ ~TypingTarget(s.active) /\ ~(e.ctrl /\ e.shift) THEN
        LET s1 == PreventDefault(s) IN
        IF d.textbox = "absent" THEN Throw(s1, "textbox")
        ELSE LET s2 == Focus(s1, "textbox") IN
             IF d.textbox = "text" THEN SetTimeout(s2, "collapse", "") ELSE s2
    ELSE IF e.ctrl /\ e.key = "[" /\ s.backdrop THEN
        Add(DispatchEvent(s, "backdrop",
                KeyboardEvent("Escape", FALSE, FALSE, FALSE), d, n),
            Eff("log", "console", "escaped"))
    ELSE IF e.key = "Escape" \/ (e.ctrl /\ e.key = "[") THEN
        IF ~d.jumpBtn /\ ~d.lastItem THEN Throw(s, "lastItem")
        ELSE
            LET s1 == IF d.jumpBtn THEN Click(s, "jumpBtn", 0)
                      ELSE ScrollIntoView(s, "lastItem")
            IN
            IF ~d.editor THEN Throw(s1, "editor")
            ELSE SetTimeout(
                     DispatchEvent(Focus(s1, "editor"), "editor",
                         KeyboardEvent("Tab", FALSE, FALSE, FALSE), d, n),
                     "arrowUp", "")
    ELSE s

\* channelSwitchStart = new MutationObserver(...)
US_channelSwitchStart(s, b) ==
    IF b.removed0 = "text" THEN Throw(s, "removedNode")
    ELSE Disconnect(SetTimeout(s, "attachEnd", ""), "start")

\* the 25 ms callback set by channelSwitchStart
US_attachEnd(s, d) ==
    IF ~d.chat THEN Throw(s, "chat") ELSE Observe(s, "end")

\* channelSwitchEnd = new MutationObserver(...)
US_channelSwitchEnd(s, b) ==
    IF b.liAfter THEN Disconnect(SetTimeout(s, "autoFocus", ""), "end") ELSE s

\* the 25 ms callback set by channelSwitchEnd
US_autoFocus(s, d, n) ==
    IF ~d.lastItem THEN Throw(s, "lastItem")
    ELSE LET s1 == ScrollIntoView(s, "lastItem") IN
         IF ~d.editor THEN Throw(s1, "editor")
         ELSE SetTimeout(
                  DispatchEvent(Focus(s1, "editor"), "editor",
                      KeyboardEvent("Tab", FALSE, FALSE, FALSE), d, n),
                  "arrowUp", "")


\* ======================= plugin: src/unnamed/part_000 ==================

\* the key test without p
IncludesJkop_noP(key) ==
    key \in {"", "j", "k", "o", "jk", "ko", "jko"}

\* 'jkop'.includes(key): key is a substring of 'jkop'
IncludesJkop(key) ==
    key \in {"", "j", "k", "o", "p", "jk", "ko", "op", "jko", "kop", "jkop"}

\* isInputActive without the isContentEditable test
PL_isInputActive_noEditable(s) ==
    s.active = "INPUT" \/ s.active = "TEXTAREA"

PL_isInputActive(s) ==
    s.active = "editable" \/ s.active = "INPUT" \/ s.active = "TEXTAREA"

PL_getSelectedMessage(d) == d.sel

PL_dispatchNavKey(s, target, direction, d, n) ==
    DispatchEvent(s, target,
        KeyboardEvent(IF direction = "down" THEN "ArrowDown" ELSE "ArrowUp",
                      FALSE, FALSE, FALSE), d, n)

PL_focusLastMessage(s, d, n) ==
    IF d.jumpBtn THEN Click(s, "jumpBtn", 0)
    ELSE IF ~d.lastItem THEN s
    ELSE LET s1 == ScrollIntoView(s, "lastItem") IN
         IF ~d.editor THEN s1
         ELSE SetTimeout(
                  DispatchEvent(Focus(s1, "editor"), "editor",
                      KeyboardEvent("Tab", FALSE, FALSE, FALSE), d, n),
                  "arrowUp", "")

\* focusTextbox without the "if (!el) return" guard
PL_focusTextbox_unguarded(s, d) ==
    IF d.textbox = "absent" THEN Throw(s, "textbox")
    ELSE LET s1 == Focus(s, "textbox") IN
         IF d.textbox = "text" THEN SetTimeout(s1, "collapse", "") ELSE s1

PL_focusTextbox(s, d) ==
    IF d.textbox = "absent" THEN s
    ELSE LET s1 == Focus(s, "textbox") IN
         IF d.textbox = "text" THEN SetTimeout(s1, "collapse", "") ELSE s1

PL_navigateMessage(s, direction, d, n) ==
    IF PL_isInputActive(s) THEN s
    ELSE LET selected == PL_getSelectedMessage(d) IN
         IF direction = "down" /\ StrictEq(selected, LastChatMessage(d)) THEN s
         ELSE PL_dispatchNavKey(s,
                  IF selected # Null THEN "selectedMsg" ELSE "appMount",
                  direction, d, n)

\* the for-loop over the three selectors, from position k of the list
RECURSIVE PL_openFrom(_, _, _)
PL_openFrom(s, d, k) ==
    LET selectors == <<"video", "link", "img">> IN
    IF k > Len(selectors) THEN s
    ELSE LET el == FirstFrom(d.content, selectors[k], 1) IN
         IF el # Null /\ ~d.content[el].inReply THEN Click(s, selectors[k], el)
         ELSE PL_openFrom(s, d, k + 1)

PL_openAttachment(s, d) ==
    IF PL_getSelectedMessage(d) = Null THEN s ELSE PL_openFrom(s, d, 1)

PL_jumpToParent(s, d) ==
    IF ~d.hasReply \/ PL_isInputActive(s) THEN s
    ELSE LET s1 == PreventDefault(s) IN
         IF ~d.replyBtn THEN s1
         ELSE SetTimeout(Click(s1, "replyPreview", 0), "parentFocus",
                         IF d.replyChild THEN "id" ELSE "undefined")

\* the animationBuffer callback set by jumpToParent
PL_parentFocus(s, arg, d) ==
    IF arg = "id" /\ d.parent THEN Focus(s, "parent") ELSE s

PL_channelSwitchStart(s, b) ==
    IF b.removed0 # "none"
    THEN Disconnect(SetTimeout(s, "attachEnd", ""), "start")
    ELSE s

\* the focusDelay callback set by channelSwitchStart
PL_attachEnd(s, d) == IF d.chat THEN Observe(s, "end") ELSE s

PL_channelSwitchEnd(s, b) ==
    IF b.liAfter THEN Disconnect(SetTimeout(s, "autoFocus", ""), "end") ELSE s

\* the focusDelay callback set by channelSwitchEnd
PL_autoFocus(s, d, n) ==
    IF ~d.lastItem \/ ~d.editor THEN s
    ELSE SetTimeout(
             DispatchEvent(Focus(ScrollIntoView(s, "lastItem"), "editor"), "editor",
                 KeyboardEvent("Tab", FALSE, FALSE, FALSE), d, n),
             "arrowUp", "")

PL_handleAppKeydown(s, e, d, n) ==
    LET key == ToLower(e.key)
        s1 == IF ~e.alt /\ IncludesJkop(key) THEN StopImmediatePropagation(s) ELSE s
    IN
    IF e.ctrl /\ key = "k" THEN s
    ELSE IF PL_isInputActive(s1) THEN s1
    ELSE IF key = "j" THEN PL_navigateMessage(s1, "down", d, n)
    ELSE IF key = "k" THEN PL_navigateMessage(s1, "up", d, n)
    ELSE IF key = "o" THEN PL_openAttachment(s1, d)
    ELSE IF key = "p" THEN PL_jumpToParent(s1, d)
    ELSE s1

PL_handleDocKeydown(s, e, d, n) ==
    LET key == ToLower(e.key) IN
    IF e.alt THEN
        IF key = "h" THEN Add(s, Eff("history", "back", ""))
        ELSE IF key = "l" THEN Add(s, Eff("history", "forward", ""))
        ELSE IF key = "j" \/ key = "k" THEN
            LET s1 == DispatchEvent(s, "document",
                          KeyboardEvent(IF key = "j" THEN "ArrowDown" ELSE "ArrowUp",
                                        e.alt, e.ctrl, e.shift), d, n)
            IN IF d.chat THEN Observe(s1, "start") ELSE s1
        ELSE s
    ELSE IF key = "i" /\ ~PL_isInputActive(s) /\ ~(e.ctrl /\ e.shift) THEN
        PL_focusTextbox(PreventDefault(s), d)
    ELSE IF e.key = "Escape" \/ (e.ctrl /\ e.key = "[") THEN
        IF s.backdrop
        THEN DispatchEvent(s, "backdrop",
                 KeyboardEvent("Escape", FALSE, FALSE, FALSE), d, n)
        ELSE PL_focusLastMessage(s, d, n)
    ELSE s

\* ======================= the browser ===================================

\* the listeners a keydown reaches, in order
Propagate(s, target, e, d, n) ==
    LET s0 == [s EXCEPT !.stop = FALSE]
        a == IF ~InAppMount(target) THEN s0
             ELSE IF script = "userscript" THEN US_AppMountKeydown(s0, e, d, n)
             ELSE PL_handleAppKeydown(s0, e, d, n)
    IN
    IF a.stop THEN a
    ELSE IF script = "userscript" THEN US_DocumentKeydown(a, e, d, n)
    ELSE PL_handleDocKeydown(a, e, d, n)

\* target.dispatchEvent(e), called with n dispatches already on the stack.
\* The host's own Escape listeners may close the image viewer before the
\* document listeners of the scripts run.  When the stack is exhausted the
\* listener call raises RangeError, which the browser reports.
DispatchEvent(s, target, e, d, n) ==
    LET s0 == Add(s, [op |-> "dispatch", el |-> target, key |-> e.key, i |-> 0,
                      alt |-> e.alt, ctrl |-> e.ctrl, shift |-> e.shift])
        s1 == IF target = "backdrop" /\ e.key = "Escape" /\ d.hostCloses
              THEN [s0 EXCEPT !.backdrop = FALSE] ELSE s0
    IN
    IF n >= MaxNest THEN Add(s1, Eff("throw", "stack", "RangeError"))
    ELSE [Propagate(s1, target, e, d, n + 1) EXCEPT !.stop = s.stop]


\* ======================= inputs ========================================

\* what document.activeElement can be
Actives == {"BODY", "editable", "INPUT", "TEXTAREA"}
TypingActives == {"editable", "INPUT", "TEXTAREA"}

\* the links, images and videos of the selected message, in document order;
\* inReply: the element's parent is the replied-text content of the reply preview
Elems == [kind : {"video", "link", "img"}, inReply : BOOLEAN]
Contents == UNION {[1..k -> Elems] : k \in 0..MaxElems}

\* the record of "no callback is running"; its fields are the defaults of
\* everything a callback does not look at
NoInput ==
    [cb |-> "none", key |-> "", alt |-> FALSE, ctrl |-> FALSE, shift |-> FALSE,
     target |-> "inside", active |-> "BODY", nMsgs |-> 0, sel |-> Null,
     content |-> <<>>, hasReply |-> FALSE, replyBtn |-> FALSE,
     replyChild |-> FALSE, parent |-> FALSE, textbox |-> "absent",
     backdrop |-> FALSE, hostCloses |-> FALSE, jumpBtn |-> FALSE,
     lastItem |-> FALSE, editor |-> FALSE, chat |-> FALSE,
     timer |-> "", arg |-> "",
     removed0 |-> "none", laterLi |-> FALSE, addsLi |-> FALSE, liAfter |-> FALSE]

\* KeyboardEvent.key of a letter key: upper case while Shift is held
KeyOf(base, shift) ==
    IF ~shift THEN base
    ELSE CASE base = "j" -> "J" [] base = "k" -> "K" [] base = "o" -> "O"
           [] base = "p" -> "P" [] base = "i" -> "I" [] base = "h" -> "H"
           [] base = "l" -> "L" [] base = "x" -> "X" [] OTHER -> base

Key(base, alt, ctrl, shift, target) ==
    [NoInput EXCEPT !.cb = "key", !.key = KeyOf(base, shift), !.alt = alt,
                    !.ctrl = ctrl, !.shift = shift, !.target = target]

\* j / k with every modifier: pressed outside the app root, while typing
\* (the first message selected), and with every selection over a list of up
\* to MaxMsgs messages
NavInputs ==
    UNION {
        {Key(b, a, c, sh, "outside")}
        \cup {[Key(b, a, c, sh, "inside") EXCEPT
                  !.active = act, !.nMsgs = MaxMsgs, !.sel = 1] : act \in TypingActives}
        \cup {[Key(b, a, c, sh, "inside") EXCEPT !.nMsgs = v[1], !.sel = v[2]] :
                 v \in {w \in (0..MaxMsgs) \X (0..MaxMsgs) : w[2] <= w[1]}}
        : b \in {"j", "k"}, a \in BOOLEAN, c \in BOOLEAN, sh \in BOOLEAN }

\* o: with every content of the selected message
OpenInputs ==
    UNION {
        {Key("o", a, FALSE, FALSE, "outside")}
        \cup {[Key("o", a, FALSE, FALSE, "inside") EXCEPT
                  !.active = act, !.nMsgs = 1, !.sel = 1,
                  !.content = <<[kind |-> "link", inReply |-> FALSE]>>] :
                 act \in TypingActives}
        \cup {Key("o", a, FALSE, FALSE, "inside")}
        \cup {[Key("o", a, FALSE, FALSE, "inside") EXCEPT !.nMsgs = 1, !.sel = 1]}
        : a \in BOOLEAN }
    \cup {[Key("o", FALSE, FALSE, FALSE, "inside") EXCEPT
              !.nMsgs = 1, !.sel = 1, !.content = ct] : ct \in Contents}

\* p: with every shape of the selected message's reply preview
ParentInputs ==
    UNION {
        {Key("p", a, c, FALSE, "outside")}
        \cup {[Key("p", a, c, FALSE, "inside") EXCEPT
                  !.active = act, !.nMsgs = 1, !.sel = 1, !.hasReply = TRUE,
                  !.replyBtn = TRUE, !.replyChild = TRUE, !.parent = TRUE] :
                 act \in TypingActives}
        \cup {Key("p", a, c, FALSE, "inside")}
        \cup {[Key("p", a, c, FALSE, "inside") EXCEPT !.nMsgs = 1, !.sel = 1]}
        \cup {[Key("p", a, c, FALSE, "inside") EXCEPT
                  !.nMsgs = 1, !.sel = 1, !.hasReply = TRUE]}
        \cup {[Key("p", a, c, FALSE, "inside") EXCEPT
                  !.nMsgs = 1, !.sel = 1, !.hasReply = TRUE, !.replyBtn = TRUE,
                  !.replyChild = rc, !.parent = pa] :
                 rc \in BOOLEAN, pa \in BOOLEAN}
        : a \in BOOLEAN, c \in BOOLEAN }

\* i: with every state of the composer
TextboxInputs ==
    UNION {
        {[Key("i", a, c, sh, "inside") EXCEPT !.active = act, !.textbox = "text"] :
            act \in TypingActives}
        \cup {[Key("i", a, c, sh, "inside") EXCEPT !.textbox = tb] :
                 tb \in {"absent", "empty", "feff", "text"}}
        : a \in BOOLEAN, c \in BOOLEAN, sh \in BOOLEAN }

\* Escape and [ : with and without the image viewer
EscInputs ==
    {Key("Escape", TRUE, FALSE, FALSE, "inside"), Key("[", TRUE, FALSE, FALSE, "inside"),
     Key("[", FALSE, FALSE, FALSE, "inside"), Key("[", TRUE, TRUE, FALSE, "inside")}
    \cup
    UNION {
        {[Key(kc[1], FALSE, kc[2], FALSE, "inside") EXCEPT
             !.backdrop = v[1], !.hostCloses = v[2], !.jumpBtn = jb,
             !.lastItem = li, !.editor = ed] :
            v \in {<<FALSE, FALSE>>, <<TRUE, FALSE>>, <<TRUE, TRUE>>},
            jb \in BOOLEAN, li \in BOOLEAN, ed \in BOOLEAN}
        : kc \in {<<"Escape", FALSE>>, <<"Escape", TRUE>>, <<"[", TRUE>>} }

\* history keys and a key the scripts do not handle
OtherInputs ==
    {Key(b, a, FALSE, FALSE, "inside") : b \in {"h", "l", "x"}, a \in BOOLEAN}

KeyInputs ==
    NavInputs \cup OpenInputs \cup ParentInputs \cup TextboxInputs
        \cup EscInputs \cup OtherInputs

\* what a timer callback finds when it fires
TimerInputs(t) ==
    LET base == [NoInput EXCEPT !.cb = "timer", !.timer = t.kind, !.arg = t.arg] IN
    IF t.kind = "autoFocus"
    THEN {[base EXCEPT !.lastItem = li, !.editor = ed] : li \in BOOLEAN, ed \in BOOLEAN}
    ELSE IF t.kind = "parentFocus"
    THEN {[base EXCEPT !.parent = pa] : pa \in BOOLEAN}
    ELSE {base}

\* A batch of childList records delivered to an observer of the chat
\* container.  removed0: what mutations[0].removedNodes holds; laterLi: a
\* later record of the batch removes message list items; addsLi: the batch
\* adds message list items; liAfter: list items exist when the callback runs.
RemovesLi(b) == b.removed0 = "li" \/ b.laterLi

Batches(li) ==
    {b \in [removed0 : {"none", "li", "elem", "text"}, laterLi : BOOLEAN,
            addsLi : BOOLEAN, liAfter : BOOLEAN] :
        /\ b.removed0 = "li" => ~b.laterLi
        /\ RemovesLi(b) => li
        /\ b.addsLi => b.liAfter
        /\ (~RemovesLi(b) /\ ~b.addsLi) => b.liAfter = li
        /\ (~b.addsLi /\ ~li) => ~b.liAfter}

\* ======================= actions =======================================

\* the callback-local state a handler works on
Frame(d) ==
    [fx |-> <<>>, timers |-> timers, startObs |-> startObs, endObs |-> endObs,
     backdrop |-> d.backdrop, active |-> d.active, stop |-> FALSE]

\* setTimeout delays, by callback
Delay(kind) ==
    CASE kind = "arrowUp" -> keyDispatch
      [] kind = "parentFocus" -> animationBuffer
      [] OTHER -> focusDelay

\* a timer cannot fire before one set earlier with the same or a shorter delay
CanFire(k) == \A j \in 1..(k - 1) : Delay(timers[j].kind) > Delay(timers[k].kind)

Without(seq, k) == SubSeq(seq, 1, k - 1) \o SubSeq(seq, k + 1, Len(seq))

RunTimer(s, t, d) ==
    CASE t.kind = "attachEnd" ->
            IF script = "userscript" THEN US_attachEnd(s, d) ELSE PL_attachEnd(s, d)
      [] t.kind = "autoFocus" ->
            IF script = "userscript" THEN US_autoFocus(s, d, 0) ELSE PL_autoFocus(s, d, 0)
      [] t.kind = "arrowUp" ->
            DispatchEvent(s, "editor", KeyboardEvent("ArrowUp", FALSE, FALSE, FALSE), d, 0)
      [] t.kind = "collapse" -> Add(s, Eff("collapse", "textbox", ""))
      [] t.kind = "parentFocus" -> PL_parentFocus(s, t.arg, d)

Init ==
    /\ script \in {"userscript", "plugin"}
    /\ chat \in BOOLEAN
    /\ listLi \in {b \in BOOLEAN : b => chat}
    /\ startObs = "off"
    /\ endObs = "off"
    /\ timers = <<>>
    /\ sw = "none"
    /\ last = NoInput
    /\ fx = <<>>

\* the user presses a key
KeyDown ==
    /\ last.cb = "none"
    /\ \E i \in KeyInputs :
        LET d == [i EXCEPT !.chat = chat]
            r == Propagate(Frame(d), d.target,
                     KeyboardEvent(d.key, d.alt, d.ctrl, d.shift), d, 0)
        IN
        /\ Len(r.timers) <= MaxTimers
        /\ last' = d
        /\ fx' = r.fx
        /\ timers' = r.timers
        /\ startObs' = r.startObs
        /\ endObs' = r.endObs
        /\ sw' = IF d.alt /\ ToLower(d.key) \in {"j", "k"} /\ chat
                 THEN "pressed" ELSE sw
    /\ UNCHANGED <<script, chat, listLi>>

\* a pending timer expires
TimerFire ==
    /\ last.cb = "none"
    /\ \E k \in 1..Len(timers) :
        /\ CanFire(k)
        /\ \E i \in TimerInputs(timers[k]) :
            LET d == [i EXCEPT !.chat = chat]
                t == timers[k]
                r == RunTimer([Frame(d) EXCEPT !.timers = Without(timers, k)], t, d)
            IN
            /\ Len(r.timers) <= MaxTimers
            /\ last' = d
            /\ fx' = r.fx
            /\ timers' = r.timers
            /\ startObs' = r.startObs
            /\ endObs' = r.endObs
            /\ sw' = IF t.kind = "autoFocus" /\ sw = "inserted"
                     THEN (IF d.lastItem /\ d.editor THEN "tabbed" ELSE "none")
                     ELSE IF t.kind = "arrowUp" /\ sw = "tabbed"
                     THEN "none"
                     ELSE sw
    /\ UNCHANGED <<script, chat, listLi>>

\* the host changes the children of the chat container; the attached
\* observers are called, channelSwitchStart (created first) before channelSwitchEnd
Mutate ==
    /\ last.cb = "none"
    /\ chat
    /\ \E b \in Batches(listLi) :
        LET d == [NoInput EXCEPT !.cb = "mutation", !.chat = chat,
                      !.removed0 = b.removed0, !.laterLi = b.laterLi,
                      !.addsLi = b.addsLi, !.liAfter = b.liAfter]
            s0 == Frame(d)
            s1 == IF startObs # "on" THEN s0
                  ELSE IF script = "userscript" THEN US_channelSwitchStart(s0, b)
                  ELSE PL_channelSwitchStart(s0, b)
            s2 == IF endObs # "on" THEN s1
                  ELSE IF script = "userscript" THEN US_channelSwitchEnd(s1, b)
                  ELSE PL_channelSwitchEnd(s1, b)
        IN
        /\ Len(s2.timers) <= MaxTimers
        /\ listLi' = b.liAfter
        /\ last' = IF startObs = "on" \/ endObs = "on" THEN d ELSE last
        /\ fx' = s2.fx
        /\ timers' = s2.timers
        /\ startObs' = s2.startObs
        /\ endObs' = s2.endObs
        /\ sw' = IF sw = "pressed" /\ startObs = "on" /\ b.removed0 = "li"
                        /\ ~b.addsLi /\ ~b.liAfter
                 THEN "removed"
                 ELSE IF sw = "removed" /\ b.addsLi /\ ~RemovesLi(b)
                 THEN "inserted"
                 ELSE sw
    /\ UNCHANGED <<script, chat>>

\* the host removes the chat container, or puts a new one in the document;
\* an observer of the old container stays registered but sees nothing more
HostChat ==
    /\ last.cb = "none"
    /\ chat' = ~chat
    /\ listLi' = FALSE
    /\ startObs' = IF startObs = "on" THEN "stale" ELSE startObs
    /\ endObs' = IF endObs = "on" THEN "stale" ELSE endObs
    /\ sw' = "none"
    /\ UNCHANGED <<script, timers, last, fx>>

\* the callback returns to the event loop
Return ==
    /\ last.cb # "none"
    /\ last' = NoInput
    /\ fx' = <<>>
    /\ UNCHANGED <<script, chat, listLi, startObs, endObs, timers, sw>>

Next == KeyDown \/ TimerFire \/ Mutate \/ HostChat \/ Return

Spec == Init /\ [][Next]_vars


\* ======================= properties ====================================

\* positions in fx of the effects with the given operation
Ops(op) == {k \in 1..Len(fx) : fx[k].op = op}

\* synthetic keydowns dispatched by the last callback
Dispatched == Ops("dispatch")
DispatchedKey(key) == {k \in Dispatched : fx[k].key = key}
Arrows == DispatchedKey("ArrowUp") \cup DispatchedKey("ArrowDown")

\* the last callback was a keydown of the user
Pressed == last.cb = "key"
PressedKey == ToLower(last.key)
Typing == TypingTarget(last.active)
PressedEscape == Pressed /\ ~last.alt /\ (last.key = "Escape" \/ (last.ctrl /\ last.key = "["))

\* the select-last-message action left a trace in fx
SelectLastRan ==
    \E k \in 1..Len(fx) :
        \/ fx[k].op = "click" /\ fx[k].el = "jumpBtn"
        \/ fx[k].op = "scrollIntoView"
        \/ fx[k].op = "focus" /\ fx[k].el = "editor"
        \/ fx[k].op = "dispatch" /\ fx[k].key = "Tab"
        \/ fx[k].op = "setTimeout" /\ fx[k].el = "arrowUp"

\* focus the editor, then Tab on it, then the ArrowUp timer is set
FocusSequence ==
    \E a \in Ops("focus"), b \in DispatchedKey("Tab"), c \in Ops("setTimeout") :
        /\ a < b /\ b < c
        /\ fx[a].el = "editor" /\ fx[b].el = "editor" /\ fx[c].el = "arrowUp"

\* C1: after Alt+j/k in a chat, once the old list items were removed and new
\* ones appeared, the watcher ends idle with the last message auto-focused,
\* whatever the order of the insertion and the expiry of the 25 ms delay.
\* As a finite run: while the switch has completed (sw = "inserted") or the
\* focus is half done (sw = "tabbed"), the script still has a timer pending
\* that carries the auto-focus forward; with none pending nothing is left
\* that would ever focus the last message.
C1_AutoFocusAfterSwitch ==
    sw \in {"inserted", "tabbed"} => timers # <<>>

\* C2: the watcher is in exactly one phase at a time; in particular the
\* removal observer (channelSwitchStart) and the insertion observer
\* (channelSwitchEnd) are never both attached.
C2_ObserversExclusive ==
    ~(startObs # "off" /\ endObs # "off")

\* C3: the watcher leaves watching-for-removal (disconnects channelSwitchStart)
\* only on a mutation batch that removed message list items.
C3_LeavesOnListRemovalOnly ==
    (last.cb = "mutation" /\ \E k \in Ops("disconnect") : fx[k].el = "start")
        => RemovesLi(last)

\* elements whose absence a callback can meet
Queried == {"textbox", "editor", "lastItem", "jumpBtn", "replyPreview",
            "replyChild", "parent", "chat", "backdrop", "selectedMsg"}

\* the element was in the document when the last callback queried it
Present(el) ==
    CASE el = "textbox" -> last.textbox # "absent"
      [] el = "editor" -> last.editor
      [] el = "lastItem" -> last.lastItem
      [] el = "jumpBtn" -> last.jumpBtn
      [] el = "replyPreview" -> last.replyBtn
      [] el = "replyChild" -> last.replyChild
      [] el = "parent" -> last.parent
      [] el = "chat" -> last.chat
      [] el = "backdrop" -> last.backdrop
      [] el = "selectedMsg" -> last.sel # Null
      [] OTHER -> TRUE

\* the last callback looked its elements up itself (the ArrowUp and the
\* cursor timers act on an element their creator had found)
Queries ==
    \/ last.cb = "key"
    \/ last.cb = "timer" /\ last.timer \in {"attachEnd", "autoFocus", "parentFocus"}

\* no TypeError from a missing element, and nothing done to a missing element
NoOpOnMissing ==
    \A k \in 1..Len(fx) :
        /\ ~(fx[k].op = "throw" /\ fx[k].key = "TypeError" /\ fx[k].el \in Queried)
        /\ (Queries /\ fx[k].op \in {"click", "focus", "scrollIntoView", "dispatch"}
               /\ fx[k].el \in Queried) => Present(fx[k].el)
        /\ (Queries /\ fx[k].op = "observe") => last.chat

\* C4: in the userscript a callback that finds a queried element missing
\* completes without an error and does nothing to that element.
C4_UserscriptNoOpOnMissing ==
    script = "userscript" => NoOpOnMissing

\* C5: in the plugin a callback that finds a queried element missing
\* completes without an error and does nothing to that element.
C5_PluginNoOpOnMissing ==
    script = "plugin" => NoOpOnMissing

\* the focusDelay timer of channelSwitchStart fired in the plugin after the
\* chat container had gone, and nothing was observed
C5_Witness ==
    /\ script = "plugin"
    /\ last.cb = "timer" /\ last.timer = "attachEnd"
    /\ ~last.chat
    /\ fx = <<>>
    /\ endObs = "off"

\* C6: while a typing target has the focus, j, k, o, p or i without Alt
\* dispatches no synthetic key, clicks nothing, moves no focus and does not
\* call preventDefault.
C6_TypingKeysDoNothing ==
    (Pressed /\ Typing /\ ~last.alt /\ PressedKey \in {"j", "k", "o", "p", "i"})
        => \A k \in 1..Len(fx) :
               fx[k].op \notin {"dispatch", "click", "focus", "preventDefault"}

\* p pressed inside the app root while typing, on a selected reply whose
\* parent is in the document: the handler ran and only stopped propagation
C6_Witness ==
    /\ Pressed /\ Typing /\ ~last.alt /\ PressedKey = "p"
    /\ last.target = "inside" /\ last.hasReply /\ last.replyBtn /\ last.parent
    /\ Len(fx) = 1 /\ fx[1].op = "stopImmediatePropagation"

\* C7: Esc or Ctrl+[ with the image viewer open dispatches exactly one
\* synthetic Escape, to the backdrop, and does not run select-last-message,
\* the nested document listener included.
C7_EscapeClosesViewerOnly ==
    (PressedEscape /\ last.backdrop)
        => /\ Cardinality(DispatchedKey("Escape")) = 1
           /\ \A k \in DispatchedKey("Escape") : fx[k].el = "backdrop"
           /\ ~SelectLastRan

\* C8: Esc or Ctrl+[ with no image viewer, the editor and the last list item
\* present, focuses the editor, dispatches Tab on it and sets up the ArrowUp
\* that follows, with or without the jump-to-present button.
C8_EscapeSelectsLast ==
    (PressedEscape /\ ~last.backdrop /\ last.editor /\ last.lastItem)
        => FocusSequence

\* C9: without typing focus, j or k (no Alt, not Ctrl+K) pressed in the app
\* root dispatches exactly one arrow keydown, ArrowDown for j and ArrowUp for
\* k, on the selected message if there is one and else on the app root;
\* except j on the selected last chat message, which dispatches nothing.
C9_NavDispatchesOneArrow ==
    (Pressed /\ last.target = "inside" /\ ~Typing /\ ~last.alt
        /\ PressedKey \in {"j", "k"} /\ ~(last.ctrl /\ PressedKey = "k"))
        => IF PressedKey = "j" /\ last.sel # Null /\ last.sel = last.nMsgs
           THEN Dispatched = {}
           ELSE /\ Cardinality(Dispatched) = 1
                /\ \A k \in Dispatched :
                    /\ fx[k].key = (IF PressedKey = "j" THEN "ArrowDown" ELSE "ArrowUp")
                    /\ fx[k].el = (IF last.sel # Null THEN "selectedMsg" ELSE "appMount")

\* C10: Alt+j / Alt+k dispatches exactly one arrow keydown, on the document
\* with the original Shift, Ctrl and Alt state, and none on the selected
\* message or the app root, whatever the target and the focus.
C10_AltNavigatesChannelsOnly ==
    (Pressed /\ last.alt /\ PressedKey \in {"j", "k"})
        => /\ Cardinality(Arrows) = 1
           /\ \A k \in Arrows :
                /\ fx[k].el = "document"
                /\ fx[k].key = (IF PressedKey = "j" THEN "ArrowDown" ELSE "ArrowUp")
                /\ fx[k].alt = last.alt
                /\ fx[k].ctrl = last.ctrl
                /\ fx[k].shift = last.shift

\* ----------------------- o, p and the propagation stop ------------------

\* a key pressed inside the app root while no typing target has the focus
PressedInApp(key) ==
    Pressed /\ PressedKey = key /\ InAppMount(last.target) /\ ~Typing

Clicks == Ops("click")

\* the selected message holds a link or an image outside the reply preview
Openable ==
    \E i \in 1..Len(last.content) :
        last.content[i].kind \in {"link", "img"} /\ ~last.content[i].inReply

\* C11: o, not typing, a message selected: exactly one element is clicked if
\* the selected message contains a link or an image that is not part of the
\* reply preview, nothing is clicked otherwise, and the clicked element is
\* never one whose parent is the replied-text content.
C11_OpenClicksOne ==
    (PressedInApp("o") /\ last.sel # Null) =>
        /\ IF Openable THEN Cardinality(Clicks) = 1 ELSE Clicks = {}
        /\ \A k \in Clicks : ~last.content[fx[k].i].inReply

\* C12: p (with or without Ctrl), not typing: on a selected reply the handler
\* calls preventDefault, clicks the reply preview exactly once and then
\* focuses the parent message (at once, or by the timer it sets with the
\* reply id); with no selected reply it clicks nothing, moves no focus and
\* does not call preventDefault.
C12_ParentJump ==
    PressedInApp("p") =>
        IF last.hasReply
        THEN /\ Ops("preventDefault") # {}
             /\ Cardinality(Clicks) = 1
             /\ \A k \in Clicks : fx[k].el = "replyPreview"
             /\ \/ \E k \in Clicks : \E f \in Ops("focus") :
                       f > k /\ fx[f].el = "parent"
                \/ \E j \in 1..Len(timers) :
                       timers[j].kind = "parentFocus" /\ timers[j].arg = "id"
        ELSE Clicks = {} /\ Ops("focus") = {} /\ Ops("preventDefault") = {}

Stops == Ops("stopImmediatePropagation")

\* C13: on a keydown that reaches the app-root handler,
\* stopImmediatePropagation is called exactly when Alt is not held, the key
\* is j, k, o or p, and the event is not Ctrl+K; on Ctrl+K the app-root
\* handler stops no propagation, dispatches nothing, clicks nothing and does
\* not call preventDefault.
C13_SelectiveStop ==
    (Pressed /\ InAppMount(last.target)) =>
        /\ (Stops # {}) <=>
               (~last.alt /\ PressedKey \in {"j", "k", "o", "p"}
                   /\ ~(last.ctrl /\ PressedKey = "k"))
        /\ (last.ctrl /\ PressedKey = "k") =>
               /\ Stops = {} /\ Clicks = {} /\ Ops("preventDefault") = {}
               /\ \A k \in Dispatched : fx[k].el = "document"

\* Ctrl+K inside the app root with a message selected, nobody typing: the
\* handlers ran and did nothing
C13_Witness ==
    /\ Pressed /\ last.ctrl /\ ~last.alt /\ PressedKey = "k"
    /\ InAppMount(last.target) /\ ~Typing
    /\ last.nMsgs = MaxMsgs /\ last.sel = 1
    /\ fx = <<>>

====
